---------------------------- MODULE Spec2Model ----------------------------
(***************************************************************************)
(* A model of two parts of the ELL sources:                                *)
(*                                                                         *)
(*  - the data-flow graph walk of libraries/compiler/src/Dataflow.cpp      *)
(*    (DataNode::Process, NotifyDependencies, OnProcessComplete), under    *)
(*    the specification Spec;                                              *)
(*  - the value operations of libraries/value/src/VectorOperations.cpp     *)
(*    and MatrixOperations.cpp (Dot, For, Sum, Accumulate, GEMM, GEMV and  *)
(*    the free binary operators), under the specification ValueSpec.       *)
(***************************************************************************)
EXTENDS Integers, Sequences, FiniteSets

VARIABLES
    \* ---- data-flow graph (Dataflow.cpp) ----
    deps,          \* deps[n]: DataNode::_dependencies of node n, in recorded order
    kind,          \* kind[n]: the node variant of n
    binop,         \* the operation of the concrete BinaryNode subclass
    stack,         \* the call stack of DataNode::Process activations
    started,       \* nodes the graph walk has already called Process on
    src1, src2,    \* BinaryNode operand variables (NullVar = nullptr)
    from1, from2,  \* history: the producer that handed each operand
    pool,          \* Compiler's free list: variables passed to FreeVar, not re-allocated
    slotVal,       \* content of each variable
    computed,      \* history: number of OnProcess runs per node
    computeOrder,  \* history: nodes in the order their OnProcess ran
    prodVar,       \* history: the variable OnProcess returned (NullVar = none)
    prodVal,       \* history: the value the node produced
    readVals,      \* history: the operand values a Binary node actually read
    notified,      \* history: dependents notified by each node, in order
    trigger,       \* history: <<producer, index>> of the notification that ran the node
    completeRuns,  \* history: number of OnProcessComplete runs per node
    freeCount,     \* history: FreeVar calls on the node's result variable
    freedAt,       \* history: Len(notified[n]) when the result was freed
    doubleFree,    \* history: FreeVar was called on a variable already free
    \* ---- value operations (VectorOperations.cpp, MatrixOperations.cpp) ----
    heap,          \* buffer id -> sequence of elements
    call,          \* the last operation invoked and its arguments
    outcome        \* what that operation did

dfVars == <<deps, kind, binop, stack, started, src1, src2, from1, from2, pool, slotVal,
            computed, computeOrder, prodVar, prodVal, readVals, notified,
            trigger, completeRuns, freeCount, freedAt, doubleFree>>
valVars == <<heap, call, outcome>>
vars == <<dfVars, valVars>>

-----------------------------------------------------------------------------
(* Bounds *)

NumNodes == 4
MaxDeps == 2

Nodes == 1..NumNodes
NullVar == 0
NoNode == 0

-----------------------------------------------------------------------------
(* Graph construction: the graphs a client can build *)

SeqsUpTo(S, k) == UNION {[1..m -> S] : m \in 0..k}

RECURSIVE DepLists(_)
DepLists(n) ==
    IF n = 0 THEN {<<>>}
    ELSE {Append(g, s) : g \in DepLists(n - 1),
                         s \in SeqsUpTo((n + 1)..NumNodes, MaxDeps)}

InEdges(d, n) == {<<p, i>> \in Nodes \X (1..MaxDeps) : i <= Len(d[p]) /\ d[p][i] = n}
InDegree(d, n) == Cardinality(InEdges(d, n))

Graphs == {d \in DepLists(NumNodes) : \A n \in Nodes : InDegree(d, n) <= 2}

\* The node variant a node of the graph d is built as: a leaf is a Literal,
\* a node with two operand edges a Binary, a node with one a consumer whose
\* OnProcess returns no result.
KindOf(d, n) ==
    CASE InDegree(d, n) = 0 -> "Literal"
      [] InDegree(d, n) = 1 -> "Sink"
      [] OTHER -> "Binary"

Kind(n) == kind[n]

Preds(n) == {p \in Nodes : \E i \in 1..Len(deps[p]) : deps[p][i] = n}

ApplyOp(op, a, b) == IF op = "add" THEN a + b ELSE a - b


-----------------------------------------------------------------------------
(* Call stack of DataNode::Process activations *)

Frame(n) == [node |-> n, pc |-> "OnProcess", i |-> 1, var |-> NullVar]

Top == stack[Len(stack)]
Pop == SubSeq(stack, 1, Len(stack) - 1)
OnStack(n) == \E k \in 1..Len(stack) : stack[k].node = n

\* LiteralNode::_pVar: the pre-existing variable the node was constructed with.
LiteralVar(n) == n

\* Dataflow.cpp line 12: if (pResult != nullptr)
HasResult(pResult) == pResult # NullVar

\* Variant: a loop bound that stops before the last dependent.
LoopContinuesSkipsLast(n, i) == i < Len(deps[n])

\* Dataflow.cpp line 26: i < _dependencies.size()  (i is 1-based here)
LoopContinues(n, i) == i <= Len(deps[n])

\* Variant: the dependents taken from the back of the list.
NextDependentReversed(n, i) == deps[n][Len(deps[n]) + 1 - i]

\* Dataflow.cpp line 28: _dependencies[i]
NextDependent(n, i) == deps[n][i]

\* Variant: a completion hook that does not release the variable.
FreeVarLeaks(v) == pool

\* Compiler::FreeVar as called by DataNode::OnProcessComplete (line 21):
\* the variable goes back to the free list.
FreeVar(v) == pool \cup {v}

\* Compiler's allocation of a result variable for node n: a recycled
\* variable of the free list, or a fresh one.
AllocChoices(n) == pool \cup {n}

-----------------------------------------------------------------------------
(* The graph walk *)

\* Before the walk: nothing processed, no operand received, nothing freed.
WalkNotStarted ==
    /\ stack = <<>>
    /\ started = {}
    /\ src1 = [n \in Nodes |-> NullVar]
    /\ src2 = [n \in Nodes |-> NullVar]
    /\ from1 = [n \in Nodes |-> NoNode]
    /\ from2 = [n \in Nodes |-> NoNode]
    /\ pool = {}
    /\ slotVal = [n \in Nodes |-> n]
    /\ computed = [n \in Nodes |-> 0]
    /\ computeOrder = <<>>
    /\ prodVar = [n \in Nodes |-> NullVar]
    /\ prodVal = [n \in Nodes |-> 0]
    /\ readVals = [n \in Nodes |-> <<>>]
    /\ notified = [n \in Nodes |-> <<>>]
    /\ trigger = [n \in Nodes |-> <<NoNode, 0>>]
    /\ completeRuns = [n \in Nodes |-> 0]
    /\ freeCount = [n \in Nodes |-> 0]
    /\ freedAt = [n \in Nodes |-> 0]
    /\ doubleFree = FALSE

DataflowInit ==
    /\ deps \in Graphs
    /\ kind = [n \in Nodes |-> KindOf(deps, n)]
    /\ binop \in {"add", "sub"}
    /\ WalkNotStarted

ValueIdle ==
    /\ heap = <<>>
    /\ call = [op |-> "none"]
    /\ outcome = [status |-> "none"]

Init == DataflowInit /\ ValueIdle

\* The walk calls Process(graph, compiler) on a leaf node not yet processed.
WalkProcess(n) ==
    /\ stack = <<>>
    /\ Kind(n) = "Literal"
    /\ n \notin started
    /\ started' = started \cup {n}
    /\ stack' = <<Frame(n)>>
    /\ UNCHANGED <<deps, kind, binop, src1, src2, from1, from2, pool, slotVal, computed,
                   computeOrder, prodVar, prodVal, readVals, notified, trigger,
                   completeRuns, freeCount, freedAt, doubleFree, valVars>>

\* DataNode::Process, lines 11-12, once OnProcess has returned pResult
\* having left the variables' contents as newVal and the free list as newPool.
ProcessResult(n, pResult, newVal, newPool, reads) ==
    /\ computed' = [computed EXCEPT ![n] = @ + 1]
    /\ computeOrder' = Append(computeOrder, n)
    /\ prodVar' = [prodVar EXCEPT ![n] = pResult]
    /\ readVals' = [readVals EXCEPT ![n] = reads]
    /\ slotVal' = newVal
    /\ pool' = newPool
    /\ IF HasResult(pResult)
       THEN /\ stack' = Append(Pop, [node |-> n, pc |-> "Notify", i |-> 1, var |-> pResult])
            /\ prodVal' = [prodVal EXCEPT ![n] = newVal[pResult]]
       ELSE /\ stack' = Pop
            /\ prodVal' = prodVal
    /\ UNCHANGED <<deps, kind, binop, started, src1, src2, from1, from2, notified,
                   trigger, completeRuns, freeCount, freedAt, doubleFree, valVars>>

\* LiteralNode::OnProcess returns the variable it wraps.
ProcessLiteral ==
    /\ stack # <<>>
    /\ Top.pc = "OnProcess"
    /\ Kind(Top.node) = "Literal"
    /\ ProcessResult(Top.node, LiteralVar(Top.node), slotVal, pool, <<>>)

\* BinaryNode::OnProcess combines its two operands into a result variable.
ProcessBinary ==
    /\ stack # <<>>
    /\ Top.pc = "OnProcess"
    /\ Kind(Top.node) = "Binary"
    /\ LET n == Top.node
           a == slotVal[src1[n]]
           b == slotVal[src2[n]]
       IN \E r \in AllocChoices(n) :
            ProcessResult(n, r, [slotVal EXCEPT ![r] = ApplyOp(binop, a, b)],
                          pool \ {r}, <<a, b>>)

\* A node whose OnProcess returns nullptr (the DataNode default).
ProcessNoResult ==
    /\ stack # <<>>
    /\ Top.pc = "OnProcess"
    /\ Kind(Top.node) = "Sink"
    /\ ProcessResult(Top.node, NullVar, slotVal, pool, <<>>)

\* The dependent's Process(graph, compiler, varResult): a Binary node keeps
\* the operand and runs once it holds two; any other node runs at once.
Receive(d, p, v) ==
    IF Kind(d) = "Binary"
    THEN IF src1[d] = NullVar
         THEN /\ src1' = [src1 EXCEPT ![d] = v]
              /\ from1' = [from1 EXCEPT ![d] = p]
              /\ UNCHANGED <<src2, from2>>
         ELSE /\ src2' = [src2 EXCEPT ![d] = v]
              /\ from2' = [from2 EXCEPT ![d] = p]
              /\ UNCHANGED <<src1, from1>>
    ELSE UNCHANGED <<src1, src2, from1, from2>>

Ready(d) == Kind(d) # "Binary" \/ (src1'[d] # NullVar /\ src2'[d] # NullVar)

\* DataNode::NotifyDependencies, lines 26-29: one iteration of the loop.
Notify ==
    /\ stack # <<>>
    /\ Top.pc = "Notify"
    /\ LoopContinues(Top.node, Top.i)
    /\ LET n == Top.node
           d == NextDependent(n, Top.i)
           caller == [Top EXCEPT !.i = @ + 1]
       IN /\ Receive(d, n, Top.var)
          /\ notified' = [notified EXCEPT ![n] = Append(@, d)]
          /\ stack' = IF Ready(d)
                      THEN Append(Append(Pop, caller), Frame(d))
                      ELSE Append(Pop, caller)
          /\ trigger' = IF Ready(d) THEN [trigger EXCEPT ![d] = <<n, Top.i>>] ELSE trigger
    /\ UNCHANGED <<deps, kind, binop, started, pool, slotVal, computed, computeOrder,
                   prodVar, prodVal, readVals, completeRuns, freeCount, freedAt,
                   doubleFree, valVars>>

\* DataNode::Process line 15 and OnProcessComplete, lines 19-22, reached
\* when the loop of NotifyDependencies has ended.
Complete ==
    /\ stack # <<>>
    /\ Top.pc = "Notify"
    /\ ~LoopContinues(Top.node, Top.i)
    /\ LET n == Top.node IN
        /\ pool' = FreeVar(Top.var)
        /\ doubleFree' = (doubleFree \/ Top.var \in pool)
        /\ completeRuns' = [completeRuns EXCEPT ![n] = @ + 1]
        /\ freeCount' = [freeCount EXCEPT ![n] = IF Top.var \in pool' THEN @ + 1 ELSE @]
        /\ freedAt' = [freedAt EXCEPT ![n] = Len(notified[n])]
    /\ stack' = Pop
    /\ UNCHANGED <<deps, kind, binop, started, src1, src2, from1, from2, slotVal,
                   computed, computeOrder, prodVar, prodVal, readVals, notified, trigger,
                   valVars>>

Next ==
    \/ \E n \in Nodes : WalkProcess(n)
    \/ ProcessLiteral
    \/ ProcessBinary
    \/ ProcessNoResult
    \/ Notify
    \/ Complete

Spec == Init /\ [][Next]_vars

WalkDone == stack = <<>> /\ \A n \in Nodes : Kind(n) = "Literal" => n \in started

-----------------------------------------------------------------------------
(* Claims about the graph walk *)

\* C1: when OnProcessComplete frees a producer's result variable, every
\* dependent that was handed the variable has already computed with it; a
\* Binary node still waiting for its second operand holds no freed variable.
C1_NoFreeBeforeDependentsComputed ==
    \A p \in Nodes :
        freeCount[p] >= 1 =>
            \A i \in 1..Len(notified[p]) : computed[notified[p][i]] >= 1

\* C2: the variable a node produces is passed to FreeVar exactly once per
\* walk, after exactly k = Len(deps[n]) notifications: never before the last
\* notification, never twice, and at once when k = 0.
C2_FreedExactlyOnceAfterAllNotifications ==
    /\ ~doubleFree
    /\ \A n \in Nodes :
        /\ freeCount[n] <= 1
        /\ Len(notified[n]) < Len(deps[n]) => freeCount[n] = 0
        /\ freeCount[n] = 1 => freedAt[n] = Len(deps[n]) /\ prodVar[n] \in pool \cup {prodVar[m] : m \in Nodes \ {n}}
        /\ (HasResult(prodVar[n]) /\ ~OnStack(n)) => freeCount[n] = 1

C2_Witness ==
    /\ \E n \in Nodes : Len(deps[n]) = 2 /\ freeCount[n] = 1 /\ Kind(n) = "Binary"
    /\ \E n \in Nodes : Len(deps[n]) = 0 /\ freeCount[n] = 1 /\ Kind(n) = "Literal"
    /\ \E n \in Nodes : Len(deps[n]) = 2 /\ freeCount[n] = 1 /\ Kind(n) = "Literal"

IsPrefix(s, t) == Len(s) <= Len(t) /\ \A i \in 1..Len(s) : s[i] = t[i]

\* C3: Process follows a fixed protocol. With no result, no dependent is
\* notified and OnProcessComplete does not run; with a result, the recorded
\* dependents are notified once each in recorded order, and
\* OnProcessComplete runs once, after the last notification has returned.
C3_ProcessProtocol ==
    /\ \A n \in Nodes :
        /\ (computed[n] >= 1 /\ ~HasResult(prodVar[n])) =>
                notified[n] = <<>> /\ completeRuns[n] = 0
        /\ IsPrefix(notified[n], deps[n])
        /\ completeRuns[n] <= 1
        /\ completeRuns[n] = 1 => notified[n] = deps[n] /\ ~OnStack(n)
        /\ (HasResult(prodVar[n]) /\ ~OnStack(n)) =>
                notified[n] = deps[n] /\ completeRuns[n] = 1
    /\ \A k \in 1..(Len(stack) - 1) :
        \* a notification has not returned: its caller has not completed
        /\ stack[k].pc = "Notify"
        /\ completeRuns[stack[k].node] = 0
        /\ stack[k + 1].node = deps[stack[k].node][stack[k].i - 1]

C3_Witness ==
    /\ \E n \in Nodes : computed[n] = 1 /\ ~HasResult(prodVar[n]) /\ Len(deps[n]) >= 1
    /\ \E n \in Nodes : completeRuns[n] = 1 /\ Len(deps[n]) = 2
                        /\ deps[n][1] # deps[n][2]

\* The call made by the j-th notification of the frame at stack position k
\* has returned.
Returned(k, j) == j < stack[k].i /\ ~(k < Len(stack) /\ j = stack[k].i - 1)

\* C4: nodes compute in a topological order of the DAG (every input of a
\* node has produced its value before the node computes), and the Process
\* call a notification starts, with its own fan-out and release, is finished
\* before the next dependent of the same producer is notified.
C4_TopologicalOrder ==
    /\ \A k \in 1..Len(computeOrder) :
        \A p \in Preds(computeOrder[k]) :
            /\ HasResult(prodVar[p])
            /\ \E j \in 1..(k - 1) : computeOrder[j] = p
    /\ \A k \in 1..Len(stack) :
        stack[k].pc = "Notify" =>
            \A j \in 1..Len(deps[stack[k].node]) :
                LET d == deps[stack[k].node][j] IN
                (Returned(k, j) /\ trigger[d] = <<stack[k].node, j>>) =>
                    /\ ~OnStack(d)
                    /\ computed[d] = 1
                    /\ HasResult(prodVar[d]) =>
                            notified[d] = deps[d] /\ freeCount[d] = 1

C4_Witness ==
    /\ Len(computeOrder) >= 3
    /\ \E k \in 1..Len(stack) :
        /\ stack[k].pc = "Notify"
        /\ stack[k].i = 2
        /\ k = Len(stack)
        /\ Len(deps[stack[k].node]) = 2
        /\ trigger[deps[stack[k].node][1]] = <<stack[k].node, 1>>
        /\ Kind(deps[stack[k].node][1]) = "Binary"
        /\ Len(deps[deps[stack[k].node][1]]) >= 1

\* C5: a Binary node computes only once both operands have arrived, at most
\* once per walk, and its result for a pair of upstream values does not
\* depend on which upstream node notified it first.
C5_BinaryOrderIndependent ==
    \A b \in Nodes :
        Kind(b) = "Binary" =>
            /\ computed[b] <= 1
            /\ computed[b] = 1 =>
                /\ src1[b] # NullVar /\ src2[b] # NullVar
                /\ prodVal[b] = ApplyOp(binop, prodVal[from1[b]], prodVal[from2[b]])
                /\ prodVal[b] = ApplyOp(binop, prodVal[from2[b]], prodVal[from1[b]])

-----------------------------------------------------------------------------
(* Values, layouts and execution contexts                                   *)

MaxLen == 2

\* ValueType: two floating-point element types and one that is neither.
Types == {"Float", "Double", "Int32"}

\* The active EmitterContext: the interpreting ComputeContext, the
\* code-emitting LLVMContext, or another code-emitting EmitterContext.
Contexts == {"Compute", "LLVM", "Other"}

\* Layout strides of a vector (GetCumulativeIncrement(0)).
Incs == {1, 2}

RECURSIVE Product(_)
Product(e) == IF e = <<>> THEN 1 ELSE Head(e) * Product(Tail(e))

\* MemoryLayout::NumDimensions and the number of active elements.
NumDimensions(v) == Len(v.extents)
NumElements(v) == Product(v.extents)
Size(v) == NumElements(v)
GetType(v) == v.type

\* Element i (from 1) of a value lies at memory offset (i - 1) * inc.
Offset(v, i) == (i - 1) * v.inc + 1
Elem(v, i) == v.mem[Offset(v, i)]
IsElemOffset(v, k) == (k - 1) % v.inc = 0 /\ (k - 1) \div v.inc < NumElements(v)

\* A value of the given type and layout, its elements base + 1, base + 2, ...
MakeValue(t, e, inc, base) ==
    LET n == Product(e)
        m == IF n = 0 THEN 0 ELSE (n - 1) * inc + 1
    IN [type |-> t, extents |-> e, inc |-> inc,
        mem |-> [k \in 1..m |-> IF (k - 1) % inc = 0 THEN base + 1 + (k - 1) \div inc ELSE 0]]

VecExtents == {<<n>> : n \in 0..MaxLen} \cup {<<1, MaxLen>>, <<>>}
MatExtents == {<<r, c>> : r \in 1..MaxLen, c \in 1..MaxLen} \cup {<<MaxLen>>, <<>>}

VectorValues(base) == {MakeValue(t, e, inc, base) : t \in Types, e \in VecExtents, inc \in Incs}
MatrixValues(base) == {MakeValue(t, e, 1, base) : t \in Types, e \in MatExtents}
ScalarValues(t) == {MakeValue(t, <<>>, 1, b) : b \in 0..2}

Ev(e, name, args) == [ev |-> e, name |-> name, args |-> args]

\* What an operation did: how it ended, the value it returned, the calls it
\* made on its collaborators, the callback invocations and element reads.
Outcome(status, value, effects, callbacks, reads) ==
    [status |-> status, value |-> value, effects |-> effects,
     callbacks |-> callbacks, reads |-> reads]

HasEvent(o, e) == \E k \in 1..Len(o.effects) : o.effects[k].ev = e

\* InvokeForContext<T>(fn): fn runs if the active context is a T.
ContextIs(ctx, T) == ctx = T

\* EmitterContext::For over a layout: the interpreting context visits every
\* coordinate in row-major order; a code-emitting context emits the loop,
\* calling back once with the loop's symbolic index (0 here).
ContextFor(ctx, v) ==
    IF ctx = "Compute" THEN [i \in 1..NumElements(v) |-> i] ELSE <<0>>

RECURSIVE SumOver(_, _, _)
SumOver(coords, v1, v2) ==
    IF coords = <<>> THEN 0
    ELSE LET i == Head(coords) IN
         (IF i = 0 THEN 0 ELSE Elem(v1, i) * Elem(v2, i)) + SumOver(Tail(coords), v1, v2)

RECURSIVE SumElems(_, _)
SumElems(coords, v) ==
    IF coords = <<>> THEN 0
    ELSE (IF Head(coords) = 0 THEN 0 ELSE Elem(v, Head(coords))) + SumElems(Tail(coords), v)

ConcreteReads(coords) == Cardinality({k \in 1..Len(coords) : coords[k] # 0})

-----------------------------------------------------------------------------
(* VectorOperations.cpp and MatrixOperations.cpp                            *)

\* Variant: a rank test that lets a rank-0 layout through.
ForVectorAcceptsScalar(ctx, v) ==
    IF NumDimensions(v) > 1
    THEN [status |-> "invalidArgument", ctxFor |-> FALSE, coords |-> <<>>]
    ELSE [status |-> "ok", ctxFor |-> TRUE, coords |-> ContextFor(ctx, v)]

\* For(Vector, fn), VectorOperations.cpp lines 140-151
ForVector(ctx, v) ==
    IF NumDimensions(v) # 1
    THEN [status |-> "invalidArgument", ctxFor |-> FALSE, coords |-> <<>>]
    ELSE [status |-> "ok", ctxFor |-> TRUE, coords |-> ContextFor(ctx, v)]

\* For(Matrix, fn), MatrixOperations.cpp lines 31-43
ForMatrix(ctx, m) ==
    IF NumDimensions(m) # 2
    THEN [status |-> "invalidArgument", ctxFor |-> FALSE, coords |-> <<>>]
    ELSE [status |-> "ok", ctxFor |-> TRUE, coords |-> ContextFor(ctx, m)]

ForEffects(f, ctx) == IF f.ctxFor THEN <<Ev("ContextFor", ctx, <<>>)>> ELSE <<>>

\* Accumulate, VectorOperations.cpp lines 25-32
Accumulate(ctx, input, initialValue) ==
    LET f == ForVector(ctx, input) IN
    IF f.status # "ok"
    THEN Outcome(f.status, 0, ForEffects(f, ctx), 0, 0)
    ELSE Outcome("ok", Elem(initialValue, 1) + SumElems(f.coords, input),
                 ForEffects(f, ctx), Len(f.coords), ConcreteReads(f.coords))

\* Sum(Matrix), MatrixOperations.cpp lines 20-29
Sum(ctx, matrix) ==
    LET alloc == <<Ev("Allocate", GetType(matrix), <<>>)>>
        f == ForMatrix(ctx, matrix)
    IN IF f.status # "ok"
       THEN Outcome(f.status, 0, alloc \o ForEffects(f, ctx), 0, 0)
       ELSE Outcome("ok", SumElems(f.coords, matrix), alloc \o ForEffects(f, ctx),
                    Len(f.coords), ConcreteReads(f.coords))

\* GEMM and GEMV, MatrixOperations.cpp lines 45-47
GEMM(m1, m2) == Outcome("notImplemented", 0, <<>>, 0, 0)
GEMV(m, v) == Outcome("notImplemented", 0, <<>>, 0, 0)

\* math::Blas::Dot(n, x, incx, y, incy): the vendor routine, reading raw
\* memory at the given strides.
RECURSIVE BlasDot(_, _, _, _, _)
BlasDot(n, xmem, incx, ymem, incy) ==
    IF n = 0 THEN 0
    ELSE xmem[(n - 1) * incx + 1] * ymem[(n - 1) * incy + 1]
         + BlasDot(n - 1, xmem, incx, ymem, incy)

\* What dereferencing an empty std::optional<Scalar> can do: the program
\* aborts, or goes on with whatever the storage holds.
EmptyOptionalDeref(effects) ==
    {Outcome("abort", 0, effects, 0, 0)}
        \cup {Outcome("garbage", g, effects, 0, 0) : g \in {0, 1}}

\* Dot, the branch of a floating-point element type: VectorOperations.cpp
\* lines 47-86 (cblas_sdot) and 90-129 (cblas_ddot). x and y name the
\* storage of v1 and v2.
VendorDot(ctx, name, v1, v2, x, y) ==
    LET declare == Ev("DeclareFunction", name, <<>>)
        args == <<Size(v1), x, v1.inc, y, v2.inc>>
    IN IF ContextIs(ctx, "Compute")
       THEN {Outcome("ok", BlasDot(args[1], v1.mem, args[3], v2.mem, args[5]),
                     <<declare, Ev("Invoke", "Compute", <<>>), Ev("Define", name, <<>>),
                       Ev("Run", name, args)>>,
                     0, 2 * Size(v1))}
       ELSE IF ContextIs(ctx, "LLVM")
       THEN {Outcome("ok", 0,
                     <<declare, Ev("Skip", "Compute", <<>>), Ev("Invoke", "LLVM", <<>>),
                       Ev("CallUndecorated", name, args)>>,
                     0, 0)}
       ELSE EmptyOptionalDeref(<<declare, Ev("Skip", "Compute", <<>>),
                                 Ev("Skip", "LLVM", <<>>)>>)

\* Dot, the branch of every other element type: lines 131-137.
DotLoop(ctx, v1, v2) ==
    LET f == ForVector(ctx, v1)
        effects == <<Ev("For", "Vector", <<>>)>> \o ForEffects(f, ctx)
    IN IF f.status # "ok"
       THEN Outcome(f.status, 0, effects, 0, 0)
       ELSE Outcome("ok", SumOver(f.coords, v1, v2), effects, Len(f.coords),
                    2 * ConcreteReads(f.coords))

\* Variant: the element types compared before the sizes.
DotTypeCheckedFirst(ctx, v1, v2, x, y) ==
    IF GetType(v1) # GetType(v2) THEN {Outcome("typeMismatch", 0, <<>>, 0, 0)}
    ELSE IF Size(v1) # Size(v2) THEN {Outcome("sizeMismatch", 0, <<>>, 0, 0)}
    ELSE IF GetType(v1) = "Float" THEN VendorDot(ctx, "cblas_sdot", v1, v2, x, y)
    ELSE IF GetType(v1) = "Double" THEN VendorDot(ctx, "cblas_ddot", v1, v2, x, y)
    ELSE {DotLoop(ctx, v1, v2)}

\* Variant: no vendor branch for Double.
DotDoubleByLoop(ctx, v1, v2, x, y) ==
    IF Size(v1) # Size(v2) THEN {Outcome("sizeMismatch", 0, <<>>, 0, 0)}
    ELSE IF GetType(v1) # GetType(v2) THEN {Outcome("typeMismatch", 0, <<>>, 0, 0)}
    ELSE IF GetType(v1) = "Float" THEN VendorDot(ctx, "cblas_sdot", v1, v2, x, y)
    ELSE {DotLoop(ctx, v1, v2)}

\* Dot, VectorOperations.cpp lines 34-138: the set of its possible outcomes.
Dot(ctx, v1, v2, x, y) ==
    IF Size(v1) # Size(v2) THEN {Outcome("sizeMismatch", 0, <<>>, 0, 0)}
    ELSE IF GetType(v1) # GetType(v2) THEN {Outcome("typeMismatch", 0, <<>>, 0, 0)}
    ELSE IF GetType(v1) = "Float" THEN VendorDot(ctx, "cblas_sdot", v1, v2, x, y)
    ELSE IF GetType(v1) = "Double" THEN VendorDot(ctx, "cblas_ddot", v1, v2, x, y)
    ELSE {DotLoop(ctx, v1, v2)}

-----------------------------------------------------------------------------
(* The free binary operators. h is the storage: h[b] is the value held by  *)
(* buffer b; a Vector, Matrix or Scalar argument is a handle, the buffer's  *)
(* number.                                                                 *)

\* Elements are integers standing for values of the element type; no
\* operation invoked below divides by zero.
Arith(op, a, b) ==
    CASE op = "+" -> a + b
      [] op = "-" -> a - b
      [] op = "*" -> a * b
      [] OTHER -> IF b = 0 THEN 0 ELSE a \div b

OpResult(h, status, res) == [heap |-> h, status |-> status, res |-> res]

\* Copy(): a new buffer holding the same elements.
Copy(h, a) == Append(h, h[a])

ElemAt(v, k) == (k - 1) \div v.inc + 1

\* copy op= s
CompoundScalar(h, dst, op, s) ==
    [h EXCEPT ![dst].mem = [k \in DOMAIN @ |->
        IF IsElemOffset(h[dst], k) THEN Arith(op, @[k], Elem(h[s], 1)) ELSE @[k]]]

\* copy(index) = s op copy(index), for every index
ScalarWith(h, dst, op, s) ==
    [h EXCEPT ![dst].mem = [k \in DOMAIN @ |->
        IF IsElemOffset(h[dst], k) THEN Arith(op, Elem(h[s], 1), @[k]) ELSE @[k]]]

\* copy op= v2: elementwise, refused on operands of different sizes
CompoundValue(h, dst, op, src) ==
    IF Size(h[dst]) # Size(h[src])
    THEN OpResult(h, "sizeMismatch", 0)
    ELSE OpResult([h EXCEPT ![dst].mem = [k \in DOMAIN @ |->
                      IF IsElemOffset(h[dst], k)
                      THEN Arith(op, @[k], Elem(h[src], ElemAt(h[dst], k)))
                      ELSE @[k]]],
                  "ok", dst)

\* operator+, -, *, / (Vector v, Scalar s): VectorOperations.cpp lines
\* 158-162, 179-183, 196-200, 211-215; (Matrix m, Scalar s):
\* MatrixOperations.cpp lines 55-59, 66-70, 72-76, 78-82.
ValueOpScalar(h, op, v, s) ==
    LET h1 == Copy(h, v)
        copy == Len(h1)
    IN OpResult(CompoundScalar(h1, copy, op, s), "ok", copy)

\* Variant: the compound assignment applied to the operand, not to a copy.
ValueOpValueInPlace(h, op, v1, v2) == CompoundValue(h, v1, op, v2)

\* operator+, - (Vector v1, Vector v2): VectorOperations.cpp lines 164-168,
\* 185-189; (Matrix m1, Matrix m2): MatrixOperations.cpp lines 49-53, 61-65.
ValueOpValue(h, op, v1, v2) ==
    LET h1 == Copy(h, v1)
        copy == Len(h1)
    IN CompoundValue(h1, copy, op, v2)

\* operator+ and operator* (Scalar s, Vector v): lines 153-156, 191-194.
ScalarCommutes(h, op, s, v) == ValueOpScalar(h, op, v, s)

\* operator- and operator/ (Scalar s, Vector v): lines 170-177, 202-209.
ScalarOpVector(ctx, h, op, s, v) ==
    LET h1 == Copy(h, v)
        copy == Len(h1)
        f == ForVector(ctx, h1[copy])
    IN IF f.status # "ok" THEN OpResult(h1, f.status, 0)
       ELSE OpResult(ScalarWith(h1, copy, op, s), "ok", copy)

-----------------------------------------------------------------------------
(* The value operations as a state machine: one operation is invoked on     *)
(* arguments drawn from the bounded sets above.                              *)

ValueInit ==
    /\ deps = [n \in Nodes |-> <<>>]
    /\ kind = [n \in Nodes |-> "Literal"]
    /\ binop = "add"
    /\ WalkNotStarted
    /\ ValueIdle

Idle == call.op = "none"

Finish(op, oper, ctx, h0, args, h1, o) ==
    /\ call' = [op |-> op, oper |-> oper, ctx |-> ctx, args |-> args, before |-> h0]
    /\ heap' = h1
    /\ outcome' = o
    /\ UNCHANGED dfVars

SameKind(x, y) == x.type = y.type

CallDot ==
    /\ Idle
    /\ \E ctx \in Contexts, x \in VectorValues(0), y \in VectorValues(2) :
         \E o \in Dot(ctx, x, y, 1, 2) :
            Finish("Dot", "", ctx, <<x, y>>, <<1, 2>>, <<x, y>>, o)

CallForVector ==
    /\ Idle
    /\ \E ctx \in Contexts, x \in VectorValues(0) :
         LET f == ForVector(ctx, x) IN
         Finish("ForVector", "", ctx, <<x>>, <<1>>, <<x>>,
                Outcome(f.status, 0, ForEffects(f, ctx), Len(f.coords), 0))

CallForMatrix ==
    /\ Idle
    /\ \E ctx \in Contexts, m \in MatrixValues(0) :
         LET f == ForMatrix(ctx, m) IN
         Finish("ForMatrix", "", ctx, <<m>>, <<1>>, <<m>>,
                Outcome(f.status, 0, ForEffects(f, ctx), Len(f.coords), 0))

CallAccumulate ==
    /\ Idle
    /\ \E ctx \in Contexts, x \in VectorValues(0) :
         \E s \in ScalarValues(x.type) :
            Finish("Accumulate", "", ctx, <<x, s>>, <<1, 2>>, <<x, s>>,
                   Accumulate(ctx, x, s))

CallSum ==
    /\ Idle
    /\ \E ctx \in Contexts, m \in MatrixValues(0) :
         Finish("Sum", "", ctx, <<m>>, <<1>>, <<m>>, Sum(ctx, m))

CallGEMM ==
    /\ Idle
    /\ \E ctx \in Contexts, m1 \in MatrixValues(0), m2 \in MatrixValues(4) :
         Finish("GEMM", "", ctx, <<m1, m2>>, <<1, 2>>, <<m1, m2>>, GEMM(m1, m2))

CallGEMV ==
    /\ Idle
    /\ \E ctx \in Contexts, m \in MatrixValues(0), v \in VectorValues(4) :
         Finish("GEMV", "", ctx, <<m, v>>, <<1, 2>>, <<m, v>>, GEMV(m, v))

OperatorOutcome(r) == Outcome(r.status, r.res, <<>>, 0, 0)

\* vector op scalar and matrix op scalar
CallValueOpScalar ==
    /\ Idle
    /\ \E op \in {"+", "-", "*", "/"}, x \in VectorValues(0) \cup MatrixValues(0) :
         \E s \in {MakeValue(x.type, <<>>, 1, b) : b \in 0..1} :
            LET h0 == <<x, s>>
                r == ValueOpScalar(h0, op, 1, 2)
            IN Finish("ValueOpScalar", op, "Compute", h0, <<1, 2>>, r.heap,
                      OperatorOutcome(r))

\* vector op vector and matrix op matrix, on two buffers or on the same one
CallValueOpValue ==
    /\ Idle
    /\ \E op \in {"+", "-"},
          xy \in (VectorValues(0) \X VectorValues(2)) \cup (MatrixValues(0) \X MatrixValues(2)) :
            /\ SameKind(xy[1], xy[2])
            /\ \E h0 \in {xy, <<xy[1]>>} :
                 LET r == ValueOpValue(h0, op, 1, Len(h0))
                 IN Finish("ValueOpValue", op, "Compute", h0, <<1, Len(h0)>>, r.heap,
                           OperatorOutcome(r))

\* scalar + vector and scalar * vector
CallScalarCommutes ==
    /\ Idle
    /\ \E op \in {"+", "*"}, x \in VectorValues(0) :
         \E s \in {MakeValue(x.type, <<>>, 1, b) : b \in 0..1} :
            LET h0 == <<s, x>>
                r == ScalarCommutes(h0, op, 1, 2)
            IN Finish("ScalarOpVector", op, "Compute", h0, <<1, 2>>, r.heap,
                      OperatorOutcome(r))

\* scalar - vector and scalar / vector
CallScalarOpVector ==
    /\ Idle
    /\ \E op \in {"-", "/"}, ctx \in Contexts, x \in VectorValues(0) :
         \E s \in {MakeValue(x.type, <<>>, 1, b) : b \in 0..1} :
            LET h0 == <<s, x>>
                r == ScalarOpVector(ctx, h0, op, 1, 2)
            IN Finish("ScalarOpVector", op, ctx, h0, <<1, 2>>, r.heap,
                      OperatorOutcome(r))

ValueNext ==
    \/ CallDot
    \/ CallForVector
    \/ CallForMatrix
    \/ CallAccumulate
    \/ CallSum
    \/ CallGEMM
    \/ CallGEMV
    \/ CallValueOpScalar
    \/ CallValueOpValue
    \/ CallScalarCommutes
    \/ CallScalarOpVector

ValueSpec == ValueInit /\ [][ValueNext]_vars

-----------------------------------------------------------------------------
(* Claims about the value operations *)

Arg(k) == call.before[call.args[k]]

NothingDone ==
    /\ outcome.effects = <<>>
    /\ outcome.callbacks = 0
    /\ outcome.reads = 0
    /\ heap = call.before

\* C6: Dot on vectors of different sizes fails with sizeMismatch, and on
\* vectors of equal size but different element types with typeMismatch; in
\* both cases before a function is declared, a context is invoked or an
\* element is read.
C6_DotMismatchRaisedFirst ==
    call.op = "Dot" =>
        /\ Size(Arg(1)) # Size(Arg(2)) =>
                outcome.status = "sizeMismatch" /\ NothingDone
        /\ (Size(Arg(1)) = Size(Arg(2)) /\ GetType(Arg(1)) # GetType(Arg(2))) =>
                outcome.status = "typeMismatch" /\ NothingDone

C6_Witness ==
    /\ call.op = "Dot"
    /\ Size(Arg(1)) = MaxLen /\ Size(Arg(2)) = 1
    /\ GetType(Arg(1)) = "Float" /\ GetType(Arg(2)) = "Double"
    /\ outcome.status = "sizeMismatch"

RankRefused ==
    /\ outcome.status = "invalidArgument"
    /\ ~HasEvent(outcome, "ContextFor")
    /\ outcome.callbacks = 0
    /\ outcome.reads = 0

\* C7: For(Vector, fn) on a layout of rank other than 1 and For(Matrix, fn)
\* on a layout of rank other than 2 fail with invalidArgument before the
\* context's For is called, the callback running zero times; so do
\* Accumulate, Sum(Matrix) and the generic loop of Dot, reading no element.
C7_ForRankChecked ==
    /\ (call.op \in {"ForVector", "Accumulate"} /\ NumDimensions(Arg(1)) # 1) => RankRefused
    /\ (call.op \in {"ForMatrix", "Sum"} /\ NumDimensions(Arg(1)) # 2) => RankRefused
    /\ (/\ call.op = "Dot"
        /\ Size(Arg(1)) = Size(Arg(2))
        /\ GetType(Arg(1)) = GetType(Arg(2))
        /\ GetType(Arg(1)) \notin {"Float", "Double"}
        /\ NumDimensions(Arg(1)) # 1) => RankRefused

C7_Witness ==
    /\ call.op = "ForVector"
    /\ NumDimensions(Arg(1)) = 0
    /\ call.ctx = "Compute"
    /\ outcome.status = "invalidArgument"

OperatorCalls == {"ValueOpScalar", "ValueOpValue", "ScalarOpVector"}

\* C8: a free binary operator on Vector and Matrix leaves both operands
\* unchanged: every write goes to a copy of the vector or matrix operand,
\* and the copy is what it returns.
C8_OperatorsLeaveOperandsUnchanged ==
    call.op \in OperatorCalls =>
        /\ \A b \in 1..Len(call.before) : heap[b] = call.before[b]
        /\ outcome.status = "ok" =>
            /\ outcome.value = Len(call.before) + 1
            /\ Len(heap) = Len(call.before) + 1

C8_Witness ==
    /\ call.op = "ValueOpValue"
    /\ call.oper = "-"
    /\ call.args = <<1, 1>>
    /\ outcome.status = "ok"
    /\ Size(heap[1]) = MaxLen
    /\ \A i \in 1..MaxLen : Elem(heap[outcome.value], i) = 0 /\ Elem(heap[1], i) = i

VendorName(t) == IF t = "Float" THEN "cblas_sdot" ELSE "cblas_ddot"

\* C9: Dot on Float and Double vectors declares the vendor routine and tries
\* the interpreting context first, defining and running the routine on
\* (count, x, incx, y, incy); the code-emitting branch is tried only when
\* the active context is not the interpreting one, and emits exactly one
\* undecorated call with the same five arguments. For every other element
\* type no vendor branch is tried and the result comes from the For loop.
C9_DotDispatch ==
    (call.op = "Dot" /\ Size(Arg(1)) = Size(Arg(2)) /\ GetType(Arg(1)) = GetType(Arg(2))) =>
        LET t == GetType(Arg(1))
            name == VendorName(t)
            shape == <<Size(Arg(1)), 1, Arg(1).inc, 2, Arg(2).inc>>
            declare == Ev("DeclareFunction", name, <<>>)
        IN IF t \in {"Float", "Double"}
           THEN /\ call.ctx = "Compute" =>
                    /\ outcome.effects = <<declare, Ev("Invoke", "Compute", <<>>),
                                           Ev("Define", name, <<>>), Ev("Run", name, shape)>>
                    /\ outcome.status = "ok"
                /\ call.ctx = "LLVM" =>
                    /\ outcome.effects = <<declare, Ev("Skip", "Compute", <<>>),
                                           Ev("Invoke", "LLVM", <<>>),
                                           Ev("CallUndecorated", name, shape)>>
                    /\ outcome.status = "ok"
                /\ call.ctx \notin {"Compute", "LLVM"} =>
                    outcome.effects = <<declare, Ev("Skip", "Compute", <<>>),
                                        Ev("Skip", "LLVM", <<>>)>>
           ELSE /\ \A k \in 1..Len(outcome.effects) :
                        outcome.effects[k].ev \in {"For", "ContextFor"}
                /\ outcome.effects[1] = Ev("For", "Vector", <<>>)
                /\ NumDimensions(Arg(1)) = 1 =>
                    /\ outcome.effects = <<Ev("For", "Vector", <<>>),
                                           Ev("ContextFor", call.ctx, <<>>)>>
                    /\ outcome.status = "ok"

C9_Witness ==
    /\ call.op = "Dot"
    /\ call.ctx = "LLVM"
    /\ GetType(Arg(1)) = "Double" /\ GetType(Arg(2)) = "Double"
    /\ Size(Arg(1)) = MaxLen /\ Size(Arg(2)) = MaxLen
    /\ Arg(1).inc = 1 /\ Arg(2).inc = 2
    /\ outcome.status = "ok"
    /\ HasEvent(outcome, "CallUndecorated")

\* C10: an operation no backend supports fails with notImplemented: GEMM
\* and GEMV for all inputs, and Dot on equal-size Float or Double vectors
\* when the active context is neither the interpreting nor the
\* code-emitting one.
C10_UnsupportedIsNotImplemented ==
    /\ call.op \in {"GEMM", "GEMV"} => outcome.status = "notImplemented"
    /\ (/\ call.op = "Dot"
        /\ Size(Arg(1)) = Size(Arg(2))
        /\ GetType(Arg(1)) = GetType(Arg(2))
        /\ GetType(Arg(1)) \in {"Float", "Double"}
        /\ call.ctx \notin {"Compute", "LLVM"}) => outcome.status = "notImplemented"

=============================================================================
